---- MODULE Spec2Model ----
(***************************************************************************)
(* The real-time event channel of the code-review dashboard:               *)
(* frontend/src/services/websocket.ts (class WebSocketService) and its     *)
(* call sites in frontend/src/main.tsx.                                    *)
(*                                                                         *)
(* One WebSocketService instance exists per page.  Everything runs on the  *)
(* browser's single event loop, so every public method and every callback  *)
(* (socket open/close/error/message, retry timer) is one atomic action.    *)
(***************************************************************************)
EXTENDS Integers, Sequences, FiniteSets, TLC

(***************************************************************************)
(* Bounds of the model.                                                    *)
(***************************************************************************)
\* sockets that may be alive at the same time
MaxSockets == 2
\* retry timers that may be pending at the same time
MaxTimers == 2
\* text frames that arrive on a socket in one run
MaxFrames == 3
\* WebSockets one useWebSocket hook instance may create
MaxHookSockets == 3

\* websocket.ts:28  options.reconnectAttempts || 5
DefaultReconnectAttempts == 5
\* websocket.ts:29  options.reconnectInterval || 3000
DefaultReconnectInterval == 3000
\* useGitHubAuth.ts:138  reconnectAttempts = 5
DefaultHookReconnectAttempts == 5

(***************************************************************************)
(* JavaScript values that travel in envelopes, and JSON text.              *)
(* A text frame is modelled as its sequence of lexical tokens.             *)
(***************************************************************************)
JUndef == [k |-> "undefined"]
JNull == [k |-> "null"]
JNum(n) == [k |-> "num", n |-> n]
JStr(s) == [k |-> "str", s |-> s]
\* an object: its own enumerable properties in insertion order
JObj(m) == [k |-> "obj", m |-> m]
Prop(key, val) == [key |-> key, val |-> val]

TPunct(p) == [t |-> p]
TNull == [t |-> "null"]
TNum(n) == [t |-> "num", n |-> n]
TStr(s) == [t |-> "str", s |-> s]
\* a bare identifier: never valid JSON
TWord(s) == [t |-> "word", s |-> s]

\* property read  obj.key  (undefined on a missing key or a primitive)
RECURSIVE GetFrom(_, _, _)
GetFrom(m, key, i) ==
    IF i = 0 THEN JUndef
    ELSE IF m[i].key = key THEN m[i].val
    ELSE GetFrom(m, key, i - 1)

Get(v, key) == IF v.k = "obj" THEN GetFrom(v.m, key, Len(v.m)) ELSE JUndef

\* property write while parsing: a repeated key keeps its place, last value wins
SetProp(m, key, val) ==
    IF \E i \in 1..Len(m) : m[i].key = key
    THEN [i \in 1..Len(m) |-> IF m[i].key = key THEN Prop(key, val) ELSE m[i]]
    ELSE Append(m, Prop(key, val))

\* JSON.stringify: members whose value is undefined are left out
RECURSIVE Stringify(_), StringifyMembers(_, _, _)
StringifyMembers(m, i, first) ==
    IF i > Len(m) THEN <<>>
    ELSE IF m[i].val.k = "undefined" THEN StringifyMembers(m, i + 1, first)
    ELSE (IF first THEN <<>> ELSE <<TPunct(",")>>)
         \o <<TStr(m[i].key), TPunct(":")>>
         \o Stringify(m[i].val)
         \o StringifyMembers(m, i + 1, FALSE)

Stringify(v) ==
    CASE v.k = "null" -> <<TNull>>
      [] v.k = "num" -> <<TNum(v.n)>>
      [] v.k = "str" -> <<TStr(v.s)>>
      [] v.k = "obj" -> <<TPunct("{")>> \o StringifyMembers(v.m, 1, TRUE) \o <<TPunct("}")>>
      [] OTHER -> <<>>

\* JSON.parse by recursive descent; ok = FALSE stands for the SyntaxError
ParseFail == [ok |-> FALSE, val |-> JNull, next |-> 0]

RECURSIVE ParseValue(_, _), ParseMembers(_, _, _)
ParseMembers(t, i, acc) ==
    IF i + 1 > Len(t) \/ t[i].t # "str" \/ t[i + 1].t # ":" THEN ParseFail
    ELSE LET r == ParseValue(t, i + 2) IN
         IF ~r.ok \/ r.next > Len(t) THEN ParseFail
         ELSE LET acc2 == SetProp(acc, t[i].s, r.val) IN
              IF t[r.next].t = "," THEN ParseMembers(t, r.next + 1, acc2)
              ELSE IF t[r.next].t = "}"
                   THEN [ok |-> TRUE, val |-> JObj(acc2), next |-> r.next + 1]
                   ELSE ParseFail

ParseValue(t, i) ==
    IF i > Len(t) THEN ParseFail
    ELSE CASE t[i].t = "null" -> [ok |-> TRUE, val |-> JNull, next |-> i + 1]
           [] t[i].t = "num" -> [ok |-> TRUE, val |-> JNum(t[i].n), next |-> i + 1]
           [] t[i].t = "str" -> [ok |-> TRUE, val |-> JStr(t[i].s), next |-> i + 1]
           [] t[i].t = "{" ->
                IF i + 1 <= Len(t) /\ t[i + 1].t = "}"
                THEN [ok |-> TRUE, val |-> JObj(<<>>), next |-> i + 2]
                ELSE ParseMembers(t, i + 1, <<>>)
           [] OTHER -> ParseFail

JSONParse(t) ==
    LET r == ParseValue(t, 1) IN
    IF r.ok /\ r.next = Len(t) + 1 THEN r ELSE ParseFail

\* the object literal { type, payload } of send()
Envelope(type, payload) == JObj(<<Prop("type", type), Prop("payload", payload)>>)


(***************************************************************************)
(* State.                                                                  *)
(*                                                                         *)
(* A socket is represented by its life-cycle state.  connect() and         *)
(* disconnect() drop the reference this.ws without detaching the socket's  *)
(* callbacks, so sockets the channel no longer references stay alive; they *)
(* differ only in their state and are kept as a bag (orphans).  In the     *)
(* same way a timer handle is represented by the state of its timer, and   *)
(* the pending timers whose handle was overwritten are counted.            *)
(***************************************************************************)
VARIABLES
    instance,           \* WebSocketService.instance: how many instances were constructed
    url,                \* this.url
    reconnectInterval,  \* this.reconnectInterval (set once by the constructor)
    ws,                 \* this.ws: "null" or the state of the referenced socket
    orphans,            \* live sockets this.ws no longer references: state -> how many
    reconnectAttempts,  \* this.reconnectAttempts (set once by the constructor)
    reconnectCount,     \* this.reconnectCount
    reconnectTimeoutId, \* this.reconnectTimeoutId: "undefined", or its timer's state
    lostTimers,         \* pending timers whose handle reconnectTimeoutId has lost
    listeners,          \* EventEmitter registry: event name -> handlers in order
    out,                \* emit() calls made by the last operation, in order
    threw,              \* TRUE iff the last operation ended by an exception escaping it
    wrote,              \* text frames the last operation handed to this.ws.send()
    lastOp,             \* history: the operation that produced the current state
    lastCall,           \* history: the last explicit connect()/disconnect() call
    staleHandshake,     \* history: that call was a disconnect() of a connecting socket
    dropped,            \* history: some send() found the socket not open
    run,                \* history: the current streak of unplanned closes
    inbox,              \* frames the transport has received and not yet dispatched
    arrived,            \* history: how many frames the transport has received
    seen,               \* history: every emit() call caused by a frame, in order
    hook                \* one instance of the useWebSocket hook: its refs and state

vars == <<instance, url, reconnectInterval, ws, orphans, reconnectAttempts, reconnectCount, reconnectTimeoutId,
          lostTimers, listeners, out, threw, wrote, lastOp, lastCall, staleHandshake,
          dropped, run, inbox, arrived, seen, hook>>

\* life-cycle states of a socket that can still call back into the channel;
\* "ERRORED" is a socket whose connection has failed and whose error event has
\* been dispatched, its close event being next
LiveStates == {"CONNECTING", "OPEN", "CLOSING", "ERRORED"}

\* WebSocket.readyState
ReadyState(st) == IF st = "ERRORED" THEN "CLOSED" ELSE st

EventNames == {"connected", "disconnected", "error", "prUpdate", "newSuggestion",
               "newComment", "suggestionStatusChange", "message"}

\* subscribers the UI registers in the model: one that returns, one that
\* throws, and three that work on the registry (see HandlerEffect)
Handlers == {"hOk", "hThrow", "hAdd", "hRemove", "hLate"}
HandlerThrows(h) == h = "hThrow"
\* the subscriptions the UI makes while the connection is managed ...
ChannelSubs == {<<"error", "hOk">>, <<"disconnected", "hThrow">>}
\* ... while it sends ...
ErrorSubs == {<<"error", "hOk">>}
\* ... and while frames arrive
DataSubs == {<<"error", "hOk">>, <<"newComment", "hThrow">>}
\* ... and while numbered frames arrive
OrderSubs == {<<"newComment", "hOk">>, <<"message", "hThrow">>}
\* ... and the subscriptions to one event that change while it is emitted
EmitSubs == {<<"message", "hAdd">>, <<"message", "hRemove">>,
             <<"message", "hLate">>, <<"message", "hThrow">>}

Err(msg) == [k |-> "Error", s |-> msg]
ErrOpen == Err("WebSocket constructor threw")
ErrTransport == Err("transport error event")
ErrParse == Err("Failed to parse WebSocket message")
ErrMax == Err("Maximum reconnection attempts reached")
ErrNotConnected == Err("WebSocket is not connected")

(***************************************************************************)
(* The channel as a value, so that a method can call another one.          *)
(***************************************************************************)
Cur == [ws |-> ws, orphans |-> orphans, reconnectCount |-> reconnectCount,
        reconnectTimeoutId |-> reconnectTimeoutId, lostTimers |-> lostTimers,
        listeners |-> listeners, out |-> <<>>, threw |-> FALSE, wrote |-> <<>>]

ApplyFields(c) ==
    \E r \in {c} :
        /\ ws' = r.ws
        /\ orphans' = r.orphans
        /\ reconnectCount' = r.reconnectCount
        /\ reconnectTimeoutId' = r.reconnectTimeoutId
        /\ lostTimers' = r.lostTimers
        /\ listeners' = r.listeners
        /\ out' = r.out
        /\ threw' = r.threw
        /\ wrote' = r.wrote
        /\ UNCHANGED hook

\* an operation on the instance: its configuration is readonly after the
\* constructor
ApplyChannel(c) ==
    ApplyFields(c) /\ UNCHANGED <<instance, url, reconnectAttempts, reconnectInterval>>

\* an operation of the channel while the transport delivers nothing
Apply(c) == ApplyChannel(c) /\ UNCHANGED <<inbox, arrived, seen>>

NumOrphans(c) ==
    c.orphans["CONNECTING"] + c.orphans["OPEN"] + c.orphans["CLOSING"] + c.orphans["ERRORED"]

\* sockets whose callbacks can still run
NumLive(c) == NumOrphans(c) + (IF c.ws \in LiveStates THEN 1 ELSE 0)

\* sockets that are connecting or open
NumActive(c) ==
    c.orphans["CONNECTING"] + c.orphans["OPEN"]
        + (IF c.ws \in {"CONNECTING", "OPEN"} THEN 1 ELSE 0)

\* retry timers that are pending
NumTimers(c) == c.lostTimers + (IF c.reconnectTimeoutId = "pending" THEN 1 ELSE 0)

\* a socket is either the one this.ws references or one of the orphans
Targets == {"ws", "orphan"}
HasSock(c, who, st) == IF who = "ws" THEN c.ws = st ELSE c.orphans[st] > 0

\* the socket `who` goes from state st to state new; a closed orphan is gone
MoveSock(c, who, st, new) ==
    IF who = "ws" THEN [c EXCEPT !.ws = new]
    ELSE [c EXCEPT !.orphans = [x \in LiveStates |->
            IF x = st /\ x = new THEN c.orphans[x]
            ELSE IF x = st THEN c.orphans[x] - 1
            ELSE IF x = new THEN c.orphans[x] + 1
            ELSE c.orphans[x]]]

\* this.ws = v: the socket referenced before lives on if it is not closed
SetWs(c, v) ==
    IF c.ws \in LiveStates
    THEN [c EXCEPT !.ws = v, !.orphans[c.ws] = @ + 1]
    ELSE [c EXCEPT !.ws = v]

(***************************************************************************)
(* EventEmitter (package 'events'), the base class of WebSocketService.    *)
(***************************************************************************)
AddListener(c, name, h) == [c EXCEPT !.listeners[name] = Append(@, h)]

\* removeListener drops the most recently added occurrence
RECURSIVE LastIndexOf(_, _, _)
LastIndexOf(hs, h, i) ==
    IF i = 0 THEN 0 ELSE IF hs[i] = h THEN i ELSE LastIndexOf(hs, h, i - 1)

RemoveListener(c, name, h) ==
    LET hs == c.listeners[name]
        i == LastIndexOf(hs, h, Len(hs))
    IN IF i = 0 THEN c
       ELSE [c EXCEPT !.listeners[name] = SubSeq(hs, 1, i - 1) \o SubSeq(hs, i + 1, Len(hs))]

\* what a subscriber does to the registry when it is called with an event:
\* hAdd subscribes hLate to the same event (once), hRemove unsubscribes it
HandlerEffect(c, name, h) ==
    CASE h = "hAdd" ->
           IF \E i \in 1..Len(c.listeners[name]) : c.listeners[name][i] = "hLate"
           THEN c ELSE AddListener(c, name, "hLate")
      [] h = "hRemove" -> RemoveListener(c, name, "hLate")
      [] OTHER -> c

\* index of the first listener that throws, 0 if none does
RECURSIVE FirstThrow(_, _)
FirstThrow(hs, i) ==
    IF i > Len(hs) THEN 0
    ELSE IF HandlerThrows(hs[i]) THEN i
    ELSE FirstThrow(hs, i + 1)

\* the listeners in calls are invoked one after the other
RECURSIVE RunHandlers(_, _, _, _)
RunHandlers(c, name, calls, i) ==
    IF i > Len(calls) THEN c
    ELSE RunHandlers(HandlerEffect(c, name, calls[i]), name, calls, i + 1)

\* an emit that walks the registry itself instead of a copy of it: a listener
\* subscribed by a listener is reached by the same walk
RECURSIVE RunLive(_, _, _, _)
RunLive(c, name, i, calls) ==
    LET hs == c.listeners[name] IN
    IF i > Len(hs) THEN [c |-> c, calls |-> calls, threw |-> FALSE]
    ELSE IF HandlerThrows(hs[i]) THEN [c |-> c, calls |-> Append(calls, hs[i]), threw |-> TRUE]
    ELSE RunLive(HandlerEffect(c, name, hs[i]), name, i + 1, Append(calls, hs[i]))

\* a faulty emit without the copy, to show what C13 depends on
EmitLive(c, name, arg) ==
    LET r == RunLive(c, name, 1, <<>>)
    IN [r.c EXCEPT !.out = Append(@, [name |-> name, arg |-> arg, calls |-> r.calls]),
                   !.threw = (name = "error" /\ r.calls = <<>>) \/ r.threw]

\* emit(name, arg): the listeners registered at the call (emit copies the
\* array) are invoked in order; a listener's exception propagates to the
\* caller of emit; 'error' without a listener throws its argument
Emit(c, name, arg) ==
    LET hs == c.listeners[name]
        n == FirstThrow(hs, 1)
        calls == IF n = 0 THEN hs ELSE SubSeq(hs, 1, n)
        c1 == RunHandlers(c, name, calls, 1)
    IN [c1 EXCEPT !.out = Append(@, [name |-> name, arg |-> arg, calls |-> calls]),
                  !.threw = (name = "error" /\ hs = <<>>) \/ n # 0]

(***************************************************************************)
(* WebSocketService                                                        *)
(***************************************************************************)
\* constructor:  options.reconnectAttempts || 5
OrDefault(opt, dflt) == IF opt.has /\ opt.v # 0 THEN opt.v ELSE dflt

\* the static field and the configuration of the instance it holds
Config == [instance |-> instance, url |-> url,
           reconnectAttempts |-> reconnectAttempts,
           reconnectInterval |-> reconnectInterval]

\* before the first getInstance(): no instance, hence no fields to read
NoInstance == [instance |-> 0, url |-> "", reconnectAttempts |-> 0,
               reconnectInterval |-> 0]

\* new WebSocketService(options)
Construct(g, o) ==
    [instance |-> g.instance + 1,
     url |-> o.url,
     reconnectAttempts |-> OrDefault(o.reconnectAttempts, DefaultReconnectAttempts),
     reconnectInterval |-> OrDefault(o.reconnectInterval, DefaultReconnectInterval)]

\* a faulty getInstance that constructs on every call, to show what C16
\* depends on
GetInstanceAlwaysNew(g, o) == Construct(g, o)

\* getInstance(options)
GetInstanceBody(g, o) == IF g.instance = 0 THEN Construct(g, o) ELSE g

\* a faulty retry guard (off by one), to show what C5 depends on
ShouldRetryOffByOne(c) == c.reconnectCount <= reconnectAttempts

\* attemptReconnect: the guard of the retry
ShouldRetry(c) == c.reconnectCount < reconnectAttempts

\* this.reconnectTimeoutId = setTimeout(...): a pending timer whose handle is
\* overwritten stays pending
ArmTimer(c) ==
    [c EXCEPT !.reconnectTimeoutId = "pending",
              !.lostTimers = IF c.reconnectTimeoutId = "pending" THEN @ + 1 ELSE @]

\* a faulty attemptReconnect that gives up without the exhaustion error, to
\* show what C27 depends on
AttemptReconnectSilent(c) ==
    IF ShouldRetry(c) THEN ArmTimer(c) ELSE c

\* attemptReconnect()
AttemptReconnect(c) ==
    IF ShouldRetry(c) THEN ArmTimer(c) ELSE Emit(c, "error", ErrMax)

\* a faulty early return (tests for a connecting socket, not an open one),
\* to show what C6 depends on
ConnectIsNoopWhileConnecting(c) == c.ws # "null" /\ ReadyState(c.ws) = "CONNECTING"

\* connect(): the early return
ConnectIsNoop(c) == c.ws # "null" /\ ReadyState(c.ws) = "OPEN"

\* a faulty connect() that gives every new attempt a fresh budget, to show
\* what C28 depends on
ConnectBodyFreshBudget(c, fail) ==
    IF ConnectIsNoop(c) THEN c
    ELSE IF fail
    THEN LET c1 == Emit([c EXCEPT !.reconnectCount = 0], "error", ErrOpen) IN
         IF c1.threw THEN c1 ELSE AttemptReconnect(c1)
    ELSE SetWs([c EXCEPT !.reconnectCount = 0], "CONNECTING")

\* connect(); fail = the WebSocket constructor throws
ConnectBody(c, fail) ==
    IF ConnectIsNoop(c) THEN c
    ELSE IF fail
    THEN LET c1 == Emit(c, "error", ErrOpen) IN
         IF c1.threw THEN c1 ELSE AttemptReconnect(c1)
    ELSE SetWs(c, "CONNECTING")

\* what connect() needs from the model's bounds
CanConnect(c, fail) ==
    \/ ConnectIsNoop(c)
    \/ fail /\ (ShouldRetry(c) => NumTimers(c) < MaxTimers)
    \/ ~fail /\ NumLive(c) < MaxSockets

\* the timer `which` ("held": reconnectTimeoutId names it, "lost": it does not)
\* is taken off the pending timers as it fires
TakeTimer(c, which) ==
    IF which = "held"
    THEN [c EXCEPT !.reconnectTimeoutId = "spent"]
    ELSE [c EXCEPT !.lostTimers = @ - 1]

\* the callback of the retry timer
TimerBody(c, fail) == ConnectBody([c EXCEPT !.reconnectCount = @ + 1], fail)

\* ws.onopen
OnOpenBody(c) ==
    LET c1 == Emit(c, "connected", JUndef) IN
    IF c1.threw THEN c1 ELSE [c1 EXCEPT !.reconnectCount = 0]

\* a faulty onclose that reconnects without telling the subscribers, to show
\* what C26 depends on
OnCloseBodyQuiet(c) == AttemptReconnect(c)

\* ws.onclose
OnCloseBody(c) ==
    LET c1 == Emit(c, "disconnected", JUndef) IN
    IF c1.threw THEN c1 ELSE AttemptReconnect(c1)

\* a faulty onerror that starts the reconnection itself, to show what C23
\* depends on
OnErrorBodyReconnects(c) ==
    LET c1 == Emit(c, "error", ErrTransport) IN
    IF c1.threw THEN c1 ELSE AttemptReconnect(c1)

\* ws.onerror
OnErrorBody(c) == Emit(c, "error", ErrTransport)

\* handleMessage's switch
DispatchName(type) ==
    CASE type = JStr("pr_update") -> "prUpdate"
      [] type = JStr("new_suggestion") -> "newSuggestion"
      [] type = JStr("new_comment") -> "newComment"
      [] type = JStr("suggestion_status_change") -> "suggestionStatusChange"
      [] OTHER -> "message"

\* handleMessage(message); reading .type of null throws a TypeError
HandleMessage(c, message) ==
    IF message.k \in {"null", "undefined"} THEN [c EXCEPT !.threw = TRUE]
    ELSE LET name == DispatchName(Get(message, "type")) IN
         IF name = "message" THEN Emit(c, "message", message)
         ELSE Emit(c, name, Get(message, "payload"))

\* onmessage without its try/catch, to show what C10 depends on
OnMessageBodyNoCatch(c, text) ==
    LET r == JSONParse(text) IN
    IF r.ok THEN HandleMessage(c, r.val) ELSE [c EXCEPT !.threw = TRUE]

\* a faulty onmessage that hands the frame to a later task and returns, to show
\* what C14 depends on
OnMessageBodyDeferred(c, text) == c

\* ws.onmessage: whatever the try block throws is caught
OnMessageBody(c, text) ==
    LET r == JSONParse(text)
        c1 == IF r.ok THEN HandleMessage(c, r.val) ELSE [c EXCEPT !.threw = TRUE]
    IN IF c1.threw THEN Emit([c1 EXCEPT !.threw = FALSE], "error", ErrParse) ELSE c1

\* ws.close() of the browser: starts the closing handshake of a socket that is
\* connecting or open, and does nothing otherwise
CloseSocket(st) == IF st \in {"CONNECTING", "OPEN"} THEN "CLOSING" ELSE st

\* clearTimeout(this.reconnectTimeoutId), guarded by the handle being set
ClearTimer(c) ==
    IF c.reconnectTimeoutId # "undefined"
    THEN [c EXCEPT !.reconnectTimeoutId = "spent"]
    ELSE c

\* disconnect()
DisconnectBody(c) ==
    LET c1 == ClearTimer(c) IN
    IF c1.ws # "null"
    THEN SetWs([c1 EXCEPT !.ws = CloseSocket(@)], "null")
    ELSE c1

\* a faulty write guard (tests only that a socket exists), to show what C7
\* depends on
CanSendAnySocket(c) == c.ws # "null"

\* send(): the guard of the write
CanSend(c) == c.ws # "null" /\ ReadyState(c.ws) = "OPEN"

\* a faulty send() that reports the error and writes all the same, to show
\* what C8 depends on
SendBodyWritesAnyway(c, type, payload) ==
    LET c1 == [c EXCEPT !.wrote = Append(@, Stringify(Envelope(type, payload)))] IN
    IF CanSend(c) THEN c1 ELSE Emit(c1, "error", ErrNotConnected)

\* a faulty send() that encodes the payload alone, to show what C19 depends on
SendBodyPayloadOnly(c, type, payload) ==
    IF CanSend(c)
    THEN [c EXCEPT !.wrote = Append(@, Stringify(payload))]
    ELSE Emit(c, "error", ErrNotConnected)

\* send(type, payload)
SendBody(c, type, payload) ==
    IF CanSend(c)
    THEN [c EXCEPT !.wrote = Append(@, Stringify(Envelope(type, payload)))]
    ELSE Emit(c, "error", ErrNotConnected)

\* subscribeToPR(prId)
SubscribeToPR(c, prId) == SendBody(c, JStr("subscribe_pr"), JObj(<<Prop("prId", prId)>>))

\* unsubscribeFromPR(prId)
UnsubscribeFromPR(c, prId) ==
    SendBody(c, JStr("unsubscribe_pr"), JObj(<<Prop("prId", prId)>>))

\* sendComment(prId, comment, lineNumber?): an omitted argument is undefined
SendComment(c, prId, comment, lineNumber) ==
    SendBody(c, JStr("new_comment"),
             JObj(<<Prop("prId", prId), Prop("comment", comment),
                    Prop("lineNumber", lineNumber)>>))

\* a faulty markSuggestionStatus that sends the inbound type name, to show
\* what C18 depends on
MarkSuggestionStatusInboundType(c, suggestionId, status) ==
    SendBody(c, JStr("suggestion_status_change"),
             JObj(<<Prop("suggestionId", suggestionId), Prop("status", status)>>))

\* markSuggestionStatus(suggestionId, status)
MarkSuggestionStatus(c, suggestionId, status) ==
    SendBody(c, JStr("suggestion_status"),
             JObj(<<Prop("suggestionId", suggestionId), Prop("status", status)>>))

\* requestAnalysis(prId)
RequestAnalysis(c, prId) ==
    SendBody(c, JStr("request_analysis"), JObj(<<Prop("prId", prId)>>))

\* a call of a typed sender: its name and its arguments
TypedSend(c, call) ==
    CASE call.fn = "subscribeToPR" -> SubscribeToPR(c, call.a[1])
      [] call.fn = "unsubscribeFromPR" -> UnsubscribeFromPR(c, call.a[1])
      [] call.fn = "sendComment" -> SendComment(c, call.a[1], call.a[2], call.a[3])
      [] call.fn = "markSuggestionStatus" -> MarkSuggestionStatus(c, call.a[1], call.a[2])
      [] call.fn = "requestAnalysis" -> RequestAnalysis(c, call.a[1])

(***************************************************************************)
(* Inputs.                                                                 *)
(***************************************************************************)
\* the options object of getInstance: a field is present (has) or omitted
Omitted == [has |-> FALSE, v |-> 0]
AttemptOptions ==
    {[has |-> FALSE, v |-> 0]} \cup {[has |-> TRUE, v |-> n] : n \in {0, 1, 2}}
IntervalOptions == {Omitted} \cup {[has |-> TRUE, v |-> n] : n \in {0, 100}}

\* the url of wsService when VITE_WS_URL is not set, and another one
DefaultUrl == "ws://localhost:8000/ws"
Urls == {DefaultUrl, "wss://review.example/ws"}

\* options objects passed to getInstance
ServiceOptions ==
    [url : Urls, reconnectAttempts : AttemptOptions, reconnectInterval : IntervalOptions]

PayloadPr == JObj(<<Prop("prId", JNum(7))>>)
PayloadComment == JObj(<<Prop("prId", JNum(7)), Prop("comment", JStr("hi"))>>)

\* envelopes the server sends, by the value of their type field
InboundTypes == {"pr_update", "new_suggestion", "new_comment",
                 "suggestion_status_change", "ping"}
InboundEnvelope(type) ==
    CASE type = "new_comment" -> Envelope(JStr(type), PayloadComment)
      [] type = "ping" -> Envelope(JStr(type), JNull)
      [] OTHER -> Envelope(JStr(type), PayloadPr)

\* text that is not JSON, and JSON that is not an envelope
TextNotValid == <<TPunct("{"), TWord("not"), TWord("valid"), TPunct("}")>>
TextTruncated == <<TPunct("{"), TStr("type"), TPunct(":"), TStr("pr_update")>>
TextNoType == Stringify(JObj(<<Prop("payload", PayloadPr)>>))
TextNull == <<TNull>>

\* the text frames that arrive, by name
MalformedFrames == {"notValid", "truncated", "noType", "null"}
InboundFrames == InboundTypes \cup MalformedFrames
FrameText(f) ==
    CASE f = "notValid" -> TextNotValid
      [] f = "truncated" -> TextTruncated
      [] f = "noType" -> TextNoType
      [] f = "null" -> TextNull
      [] OTHER -> Stringify(InboundEnvelope(f))

\* envelopes the server numbers in the order it sends them
OrderTypes == {"new_comment", "ping"}
SeqEnvelope(f) == Envelope(JStr(f.type), JObj(<<Prop("prId", JNum(f.seq))>>))

\* the number of the frame an emit() call carries (0: none)
SeqOf(e) ==
    LET p == IF e.name = "message" THEN Get(e.arg, "payload") ELSE e.arg
        n == IF p.k = "obj" THEN Get(p, "prId") ELSE JUndef
    IN IF n.k = "num" THEN n.n ELSE 0

\* envelopes passed to send(): a string type and a payload that is null, a
\* number, a string or an object, possibly nested, possibly with a property
\* whose value is undefined (sendComment without its lineNumber)
EnvelopeTypes == {"new_comment", "custom"}
EnvelopePayloads ==
    {JNull, JNum(0), JStr(""), JObj(<<>>), PayloadComment,
     JObj(<<Prop("prId", JNum(3)), Prop("comment", JStr("hi")), Prop("lineNumber", JUndef)>>),
     JObj(<<Prop("type", JStr("x")), Prop("inner", JObj(<<Prop("payload", JNull)>>))>>)}

\* calls of the typed senders
SenderCalls ==
    {[fn |-> f, a |-> <<JNum(3)>>] :
        f \in {"subscribeToPR", "unsubscribeFromPR", "requestAnalysis"}}
    \cup {[fn |-> "sendComment", a |-> <<JNum(3), JStr("hi"), n>>] : n \in {JUndef, JNum(12)}}
    \cup {[fn |-> "markSuggestionStatus", a |-> <<JStr("s1"), JStr(st)>>] :
             st \in {"accepted", "rejected"}}

\* arguments of send(type, payload), by the type
SendTypes == {"subscribe_pr", "new_comment"}
SendPayload(type) ==
    IF type = "subscribe_pr"
    THEN JObj(<<Prop("prId", JNum(3))>>)
    ELSE JObj(<<Prop("prId", JNum(3)), Prop("comment", JStr("hi")),
                Prop("lineNumber", JUndef)>>)

(***************************************************************************)
(* Initial state: the module has run getInstance(options); nothing is      *)
(* connected and nobody has subscribed yet.                                *)
(***************************************************************************)
Op(name, flag) == [op |-> name, flag |-> flag]
NoRun == [live |-> FALSE, fails |-> 0, armed |-> 0, exhausted |-> 0, spent |-> FALSE]
NewRun == [live |-> TRUE, fails |-> 0, armed |-> 0, exhausted |-> 0, spent |-> FALSE]
SpentRun == [live |-> FALSE, fails |-> 0, armed |-> 0, exhausted |-> 0, spent |-> TRUE]

(***************************************************************************)
(* The useWebSocket hook (hooks/useWebSocket.ts in useGitHubAuth.ts): it   *)
(* keeps its own socket, attempt counter and timer handle in refs.         *)
(***************************************************************************)
\* life-cycle states of a socket whose callbacks can still run
HookLive == {"CONNECTING", "OPEN", "CLOSING"}

\* the hook before its component mounts: useState and useRef initial values
\* and the defaults of the options
HookUnmounted ==
    [mounted |-> "no", ws |-> "null", orphans |-> [x \in HookLive |-> 0],
     reconnectCount |-> 0, reconnectTimeoutId |-> "undefined", lostTimers |-> 0,
     isConnected |-> FALSE, error |-> "null",
     reconnectAttempts |-> DefaultHookReconnectAttempts, autoReconnect |-> TRUE,
     created |-> 0, lastCall |-> "none"]

\* options a component passes: reconnectAttempts (omitted, 1, 2), autoReconnect
HookAttemptOptions == {DefaultHookReconnectAttempts, 1, 2}

\* setIsConnected / setError: a state update after unmount is dropped by React
SetIsConnected(h, v) == IF h.mounted = "yes" THEN [h EXCEPT !.isConnected = v] ELSE h
SetError(h, v) == IF h.mounted = "yes" THEN [h EXCEPT !.error = v] ELSE h

\* connect(): ws.current = new WebSocket(url); no test of the current socket
\* and none of a disconnect() before it; fail = the constructor throws
HookConnectBody(h, fail) ==
    IF fail THEN SetError(h, "connect")
    ELSE [h EXCEPT !.ws = "CONNECTING",
                   !.orphans = IF h.ws \in HookLive
                               THEN [@ EXCEPT ![h.ws] = @ + 1] ELSE @,
                   !.created = @ + 1]

\* clearTimeout(reconnectTimeoutId.current): cancels the timer the handle
\* names if it is still pending; timers whose handle was overwritten stay
HookClearTimer(h) ==
    IF h.reconnectTimeoutId = "pending"
    THEN [h EXCEPT !.reconnectTimeoutId = "cleared"] ELSE h

\* disconnect(): clearTimeout(reconnectTimeoutId.current); ws.current.close();
\* the socket keeps its callbacks and the refs keep their values
HookDisconnectBody(h) ==
    LET h1 == HookClearTimer(h) IN
    IF h1.ws \in {"CONNECTING", "OPEN"} THEN [h1 EXCEPT !.ws = "CLOSING"] ELSE h1

\* ws.current.onopen
HookOnOpenBody(h) ==
    [SetError(SetIsConnected(h, TRUE), "null") EXCEPT !.reconnectCount = 0]

\* the test of onclose
HookShouldRetry(h) == h.autoReconnect /\ h.reconnectCount < h.reconnectAttempts

\* ws.current.onclose
HookOnCloseBody(h) ==
    LET h1 == SetIsConnected(h, FALSE) IN
    IF HookShouldRetry(h1)
    THEN [h1 EXCEPT !.reconnectTimeoutId = "pending",
                    !.lostTimers = IF h1.reconnectTimeoutId = "pending"
                                   THEN @ + 1 ELSE @]
    ELSE h1

\* ws.current.onerror
HookOnErrorBody(h) == SetError(h, "transport")

\* the setTimeout callback of onclose
HookTimerBody(h, fail) ==
    HookConnectBody([h EXCEPT !.reconnectCount = @ + 1], fail)

HookTargets == {"ws", "orphan"}

HookHasSock(h, who, st) ==
    IF who = "ws" THEN h.ws = st ELSE h.orphans[st] > 0

\* the socket `who` in state `from` moves to state `to`
HookMoveSock(h, who, from, to) ==
    IF who = "ws" THEN [h EXCEPT !.ws = to]
    ELSE [h EXCEPT !.orphans =
             [x \in HookLive |-> IF x = from THEN @[x] - 1
                                 ELSE IF x = to THEN @[x] + 1 ELSE @[x]]]

\* the timer `which` is taken off the pending timers as it fires
HookTakeTimer(h, which) ==
    IF which = "held" THEN [h EXCEPT !.reconnectTimeoutId = "spent"]
    ELSE [h EXCEPT !.lostTimers = @ - 1]

\* what connect() needs from the model's bound
HookCanConnect(h, fail) == fail \/ h.created < MaxHookSockets

\* the fields of a new instance, and the history of a run that starts
InitFields ==
    /\ ws = "null"
    /\ orphans = [x \in LiveStates |-> 0]
    /\ reconnectCount = 0
    /\ reconnectTimeoutId = "undefined"
    /\ lostTimers = 0
    /\ listeners = [e \in EventNames |-> <<>>]
    /\ out = <<>>
    /\ threw = FALSE
    /\ wrote = <<>>
    /\ lastOp = Op("init", FALSE)
    /\ lastCall = "none"
    /\ staleHandshake = FALSE
    /\ dropped = FALSE
    /\ run = NoRun
    /\ inbox = <<>>
    /\ arrived = 0
    /\ seen = <<>>
    /\ hook = HookUnmounted

\* the instance in use, constructed with a url and a retry budget
Init ==
    /\ \E o \in AttemptOptions :
          LET g == Construct(NoInstance, [url |-> DefaultUrl, reconnectAttempts |-> o,
                                          reconnectInterval |-> Omitted])
          IN /\ instance = g.instance
             /\ url = g.url
             /\ reconnectAttempts = g.reconnectAttempts
             /\ reconnectInterval = g.reconnectInterval
    /\ InitFields

\* the class before its first getInstance() call
InitClass ==
    /\ instance = NoInstance.instance
    /\ url = NoInstance.url
    /\ reconnectAttempts = NoInstance.reconnectAttempts
    /\ reconnectInterval = NoInstance.reconnectInterval
    /\ InitFields

\* the close event of an errored socket is dispatched in the same task as its
\* error event: nothing else runs in between
Busy == ws = "ERRORED" \/ orphans["ERRORED"] > 0

\* history: an explicit connect() that creates the only socket of a channel
\* with no live socket, no pending timer and a zero attempt counter starts a
\* streak of closes; the streak ends with the next explicit call, a
\* constructor failure, or a close callback a subscriber aborts by throwing
StartsRun(c, fail) ==
    ~fail /\ NumLive(c) = 0 /\ NumTimers(c) = 0 /\ c.reconnectCount = 0

\* history: an explicit connect() that creates the only socket of a channel
\* with no pending timer and a spent budget; the closes of that attempt are
\* counted until the next explicit call or open
StartsSpent(c, fail) ==
    ~fail /\ NumLive(c) = 0 /\ NumTimers(c) = 0 /\ ~ShouldRetry(c)

Aborted(o, t) == t /\ o[Len(o)].name = "disconnected"

ExhaustedIn(o) == Len(SelectSeq(o, LAMBDA e : e.name = "error" /\ e.arg = ErrMax))

(***************************************************************************)
(* Actions: the calls of the UI and the callbacks of the event loop.       *)
(***************************************************************************)
\* WebSocketService.getInstance(options)
GetInstance ==
    \E o \in ServiceOptions :
        \E g \in {GetInstanceBody(Config, o)} :
            /\ instance' = g.instance
            /\ url' = g.url
            /\ reconnectAttempts' = g.reconnectAttempts
            /\ reconnectInterval' = g.reconnectInterval
            /\ ApplyFields(Cur)
            /\ lastOp' = [op |-> "getInstance", flag |-> instance = 0, arg |-> o]
            /\ UNCHANGED <<lastCall, staleHandshake, dropped, run, inbox, arrived, seen>>

\* wsService.connect() (main.tsx:9 at start-up, main.tsx:14 on visibilitychange)
ConnectOf(fails) ==
    \E fail \in fails :
        /\ ~Busy
        /\ CanConnect(Cur, fail)
        /\ Apply(ConnectBody(Cur, fail))
        /\ lastOp' = Op("connect", fail)
        /\ lastCall' = "connect"
        /\ staleHandshake' = FALSE
        /\ run' = IF StartsRun(Cur, fail) THEN NewRun
                  ELSE IF StartsSpent(Cur, fail) THEN SpentRun ELSE NoRun
        /\ UNCHANGED dropped

\* wsService.disconnect()
Disconnect ==
    /\ ~Busy
    /\ Apply(DisconnectBody(Cur))
    /\ lastOp' = Op("disconnect", FALSE)
    /\ lastCall' = "disconnect"
    /\ staleHandshake' = (ws = "CONNECTING")
    /\ run' = NoRun
    /\ UNCHANGED dropped

\* a pending retry timer fires
TimerFireOf(fails) ==
    \E which \in {"held", "lost"}, fail \in fails :
        LET c == TakeTimer(Cur, which) IN
        /\ ~Busy
        /\ IF which = "held" THEN reconnectTimeoutId = "pending" ELSE lostTimers > 0
        /\ CanConnect([c EXCEPT !.reconnectCount = @ + 1], fail)
        /\ Apply(TimerBody(c, fail))
        /\ lastOp' = Op("timer", fail)
        /\ run' = IF fail THEN NoRun ELSE run
        /\ UNCHANGED <<lastCall, staleHandshake, dropped>>

\* the handshake of a connecting socket completes
OnOpen ==
    \E who \in Targets :
        /\ ~Busy
        /\ HasSock(Cur, who, "CONNECTING")
        /\ Apply(OnOpenBody(MoveSock(Cur, who, "CONNECTING", "OPEN")))
        /\ lastOp' = Op("open", who = "ws")
        /\ run' = IF run.live /\ ~threw' THEN NewRun ELSE NoRun
        /\ UNCHANGED <<lastCall, staleHandshake, dropped>>

\* the close event of a socket: the end of a closing handshake, a lost
\* connection or a failed handshake
OnClose ==
    \E who \in Targets, st \in LiveStates :
        /\ HasSock(Cur, who, st)
        /\ Busy => st = "ERRORED"
        /\ ShouldRetry(Cur) => NumTimers(Cur) < MaxTimers
        /\ Apply(OnCloseBody(MoveSock(Cur, who, st, "CLOSED")))
        /\ lastOp' = Op("close", st = "CLOSING")
        /\ run' = IF (run.live \/ run.spent) /\ ~Aborted(out', threw')
                  THEN [run EXCEPT
                          !.fails = @ + 1,
                          !.armed = @ + (NumTimers(Cur)' - NumTimers(Cur)),
                          !.exhausted = @ + ExhaustedIn(out')]
                  ELSE NoRun
        /\ UNCHANGED <<lastCall, staleHandshake, dropped>>

\* the error event of a socket whose connection failed
OnError ==
    \E who \in Targets, st \in {"CONNECTING", "OPEN"} :
        /\ ~Busy
        /\ HasSock(Cur, who, st)
        /\ Apply(OnErrorBody(MoveSock(Cur, who, st, "ERRORED")))
        /\ lastOp' = Op("error", who = "ws")
        /\ UNCHANGED <<lastCall, staleHandshake, dropped, run>>

\* a text frame arrives on an open socket
OnMessage ==
    /\ ~Busy
    /\ \E who \in Targets : HasSock(Cur, who, "OPEN")
    /\ \E f \in InboundFrames :
        /\ Apply(OnMessageBody(Cur, FrameText(f)))
        /\ lastOp' = [op |-> "message", flag |-> TRUE, arg |-> f]
        /\ UNCHANGED <<lastCall, staleHandshake, dropped, run>>

\* the transport receives a text frame for the socket this.ws references; the
\* browser queues its message event
FrameArrives ==
    \E type \in OrderTypes :
        /\ ~Busy
        /\ ws = "OPEN"
        /\ arrived < MaxFrames
        /\ inbox' = Append(inbox, [type |-> type, seq |-> arrived + 1])
        /\ arrived' = arrived + 1
        /\ ApplyChannel(Cur)
        /\ lastOp' = Op("arrive", FALSE)
        /\ UNCHANGED <<lastCall, staleHandshake, dropped, run, seen>>

\* the browser dispatches the oldest queued message event to ws.onmessage
DeliverFrame ==
    /\ ~Busy
    /\ ws = "OPEN"
    /\ inbox # <<>>
    /\ ApplyChannel(OnMessageBody(Cur, Stringify(SeqEnvelope(Head(inbox)))))
    /\ lastOp' = [op |-> "message", flag |-> TRUE, arg |-> Head(inbox).type]
    /\ inbox' = Tail(inbox)
    /\ seen' = seen \o [i \in 1..Len(out') |->
                            [name |-> out'[i].name, seq |-> SeqOf(out'[i])]]
    /\ UNCHANGED <<lastCall, staleHandshake, dropped, run, arrived>>

\* wsService.send(type, payload)
Send ==
    \E type \in SendTypes :
        /\ ~Busy
        /\ Apply(SendBody(Cur, JStr(type), SendPayload(type)))
        /\ lastOp' = [op |-> "send", flag |-> ws = "OPEN", arg |-> type]
        /\ dropped' = (dropped \/ ws # "OPEN")
        /\ UNCHANGED <<lastCall, staleHandshake, run>>

\* wsService.send(type, payload) with any envelope
SendEnvelope ==
    \E type \in EnvelopeTypes, payload \in EnvelopePayloads :
        /\ ~Busy
        /\ Apply(SendBody(Cur, JStr(type), payload))
        /\ lastOp' = [op |-> "sendEnvelope", flag |-> ws = "OPEN",
                      arg |-> [type |-> type, payload |-> payload]]
        /\ dropped' = (dropped \/ ws # "OPEN")
        /\ UNCHANGED <<lastCall, staleHandshake, run>>

\* a call of one of the typed senders
CallSender ==
    \E call \in SenderCalls :
        /\ ~Busy
        /\ Apply(TypedSend(Cur, call))
        /\ lastOp' = [op |-> "sender", flag |-> ws = "OPEN", arg |-> call]
        /\ dropped' = (dropped \/ ws # "OPEN")
        /\ UNCHANGED <<lastCall, staleHandshake, run>>

\* wsService.on(name, handler); the UI registers a handler once
OnOf(subs) ==
    \E p \in subs :
        /\ ~Busy
        /\ \A i \in 1..Len(listeners[p[1]]) : listeners[p[1]][i] # p[2]
        /\ Apply(AddListener(Cur, p[1], p[2]))
        /\ lastOp' = Op("on", FALSE)
        /\ UNCHANGED <<lastCall, staleHandshake, dropped, run>>

\* wsService.off(name, handler)
OffOf(subs) ==
    \E p \in subs :
        /\ ~Busy
        /\ \E i \in 1..Len(listeners[p[1]]) : listeners[p[1]][i] = p[2]
        /\ Apply(RemoveListener(Cur, p[1], p[2]))
        /\ lastOp' = Op("off", FALSE)
        /\ UNCHANGED <<lastCall, staleHandshake, dropped, run>>

\* new WebSocket(url) throws or not; it never throws for a well-formed url
Connect == ConnectOf(BOOLEAN)
TimerFire == TimerFireOf(BOOLEAN)
ConnectOk == ConnectOf({FALSE})
TimerFireOk == TimerFireOf({FALSE})
On == OnOf(ChannelSubs)
Off == OffOf(ChannelSubs)
OnErrorSub == OnOf(ErrorSubs)
OffErrorSub == OffOf(ErrorSubs)
OnData == OnOf(DataSubs)
OffData == OffOf(DataSubs)
OnEmitSub == OnOf(EmitSubs)
OnOrderSub == OnOf(OrderSubs)
OffOrderSub == OffOf(OrderSubs)
OffEmitSub == OffOf(EmitSubs)

(***************************************************************************)
(* Spec: the connection life cycle (connect, disconnect, retry timers and  *)
(* the socket's open/close/error callbacks).                               *)
(* SpecSend, SpecRecv: frames sent, and frames received, over the life     *)
(* cycle of a channel whose url is well-formed.                            *)
(***************************************************************************)
Next ==
    \/ Connect
    \/ Disconnect
    \/ TimerFire
    \/ OnOpen
    \/ OnClose
    \/ OnError
    \/ On
    \/ Off

Spec == Init /\ [][Next]_vars

NextSend ==
    \/ ConnectOk
    \/ Disconnect
    \/ TimerFireOk
    \/ OnOpen
    \/ OnClose
    \/ Send
    \/ OnErrorSub
    \/ OffErrorSub

SpecSend == Init /\ [][NextSend]_vars

NextRecv ==
    \/ ConnectOk
    \/ Disconnect
    \/ TimerFireOk
    \/ OnOpen
    \/ OnClose
    \/ OnMessage
    \/ OnData
    \/ OffData

SpecRecv == Init /\ [][NextRecv]_vars

\* SpecEmit: frames received while the subscribers of 'message' come and go
NextEmit ==
    \/ ConnectOk
    \/ OnOpen
    \/ OnMessage
    \/ OnEmitSub
    \/ OffEmitSub

SpecEmit == Init /\ [][NextEmit]_vars

\* SpecOrder: numbered frames queue up at the transport and are dispatched
NextOrder ==
    \/ ConnectOk
    \/ OnOpen
    \/ FrameArrives
    \/ DeliverFrame
    \/ OnOrderSub
    \/ OffOrderSub

SpecOrder == Init /\ [][NextOrder]_vars

\* SpecSenders: the typed senders and send() on a channel that opens and is
\* disconnected
NextSenders ==
    \/ ConnectOk
    \/ OnOpen
    \/ Disconnect
    \/ CallSender
    \/ SendEnvelope
    \/ OnErrorSub
    \/ OffErrorSub

SpecSenders == Init /\ [][NextSenders]_vars

\* SpecRetry: the application connects once at start-up and every attempt
\* fails: no socket opens and the UI calls neither connect() nor disconnect()
\* again.  The event loop runs every timer that is due and delivers the close
\* event of every socket whose connection failed, hence the weak fairness.
StartConnect == lastCall = "none" /\ ConnectOk

NextRetry ==
    \/ StartConnect
    \/ OnError
    \/ OnClose
    \/ TimerFireOk
    \/ OnErrorSub
    \/ OffErrorSub

SpecRetry ==
    Init /\ [][NextRetry]_vars /\ WF_vars(OnClose) /\ WF_vars(TimerFireOk)

(***************************************************************************)
(* The useWebSocket hook: the calls of its component and the callbacks of  *)
(* the event loop.                                                         *)
(***************************************************************************)
\* everything of the singleton service
serviceVars ==
    <<instance, url, reconnectInterval, ws, orphans, reconnectAttempts,
      reconnectCount, reconnectTimeoutId, lostTimers, listeners, out, threw,
      wrote, lastOp, lastCall, staleHandshake, dropped, run, inbox, arrived, seen>>

HookStep(h) == hook' = h /\ UNCHANGED serviceVars

\* a component using the hook mounts: the effect runs connect()
HookMount ==
    \E n \in HookAttemptOptions, auto \in BOOLEAN, fail \in BOOLEAN :
        /\ hook.mounted = "no"
        /\ HookStep([HookConnectBody([hook EXCEPT !.mounted = "yes",
                                                  !.reconnectAttempts = n,
                                                  !.autoReconnect = auto], fail)
                       EXCEPT !.lastCall = "connect"])

\* the component unmounts: the effect's cleanup runs disconnect()
HookUnmount ==
    /\ hook.mounted = "yes"
    /\ HookStep([HookDisconnectBody(hook) EXCEPT !.mounted = "gone",
                                                 !.lastCall = "disconnect"])

\* the component calls the returned reconnect()
HookReconnect ==
    \E fail \in BOOLEAN :
        /\ hook.mounted = "yes"
        /\ HookCanConnect(hook, fail)
        /\ HookStep([HookConnectBody(hook, fail) EXCEPT !.lastCall = "connect"])

\* the component calls the returned disconnect()
HookDisconnect ==
    /\ hook.mounted = "yes"
    /\ HookStep([HookDisconnectBody(hook) EXCEPT !.lastCall = "disconnect"])

\* the handshake of a socket of the hook completes
HookOnOpen ==
    \E who \in HookTargets :
        /\ HookHasSock(hook, who, "CONNECTING")
        /\ HookStep(HookOnOpenBody(HookMoveSock(hook, who, "CONNECTING", "OPEN")))

\* the close event of a socket of the hook
HookOnClose ==
    \E who \in HookTargets, st \in HookLive :
        /\ HookHasSock(hook, who, st)
        /\ HookStep(HookOnCloseBody(HookMoveSock(hook, who, st, "CLOSED")))

\* the error event of a socket of the hook
HookOnError ==
    \E who \in HookTargets, st \in {"CONNECTING", "OPEN"} :
        /\ HookHasSock(hook, who, st)
        /\ HookStep(HookOnErrorBody(hook))

\* a pending timer of the hook fires
HookTimerFire ==
    \E which \in {"held", "lost"}, fail \in BOOLEAN :
        /\ IF which = "held" THEN hook.reconnectTimeoutId = "pending"
           ELSE hook.lostTimers > 0
        /\ HookCanConnect(hook, fail)
        /\ HookStep(HookTimerBody(HookTakeTimer(hook, which), fail))

\* SpecHook: one instance of the hook, from before its component mounts
NextHook ==
    \/ HookMount
    \/ HookUnmount
    \/ HookReconnect
    \/ HookDisconnect
    \/ HookOnOpen
    \/ HookOnClose
    \/ HookOnError
    \/ HookTimerFire

SpecHook == Init /\ [][NextHook]_vars

\* SpecConfig: the class from before its first getInstance() call
NextConfig == GetInstance

SpecConfig == InitClass /\ [][NextConfig]_vars


(***************************************************************************)
(* Properties of the connection life cycle.                                *)
(***************************************************************************)
\* C1: in every reachable state at most one socket that is connecting or open
\* has its callbacks attached to the channel.
C1_AtMostOneLiveSocket == NumActive(Cur) <= 1

\* C2: in every reachable state at most one retry timer is pending.
C2_AtMostOnePendingTimer == NumTimers(Cur) <= 1

\* C3: no automatic reconnection follows from disconnect(): the close callback
\* of the socket that disconnect() closed arms no retry timer, and while
\* disconnect() is the last explicit call no retry timer creates a socket.
C3_NoReconnectAfterDisconnect ==
    [][/\ (lastOp'.op = "close" /\ lastOp'.flag) => NumTimers(Cur)' <= NumTimers(Cur)
       /\ (lastOp'.op = "timer" /\ lastCall = "disconnect") => NumLive(Cur)' <= NumLive(Cur)]_vars

\* C4: right after disconnect() returns, the channel owns no socket and no
\* retry timer is pending, whatever the state before.
C4_DisconnectLeavesNothing ==
    lastOp.op = "disconnect" => ws = "null" /\ NumTimers(Cur) = 0

C6_ConnectWhileOpenIsNoop ==
    [][(lastOp'.op = "connect" /\ ws = "OPEN") =>
          /\ UNCHANGED <<ws, orphans, reconnectCount, reconnectTimeoutId, lostTimers>>
          /\ out' = <<>>
          /\ ~threw']_vars

C6_Witness == lastOp.op = "connect" /\ ws = "OPEN" /\ out = <<>>


(***************************************************************************)
(* Properties of the frames sent and received.                             *)
(***************************************************************************)
\* C7: send() while this.ws is null or not open writes nothing, emits exactly
\* one 'error' event, and leaves socket, attempt counter and retry timer alone.
C7_SendWhileClosed ==
    [][(lastOp'.op = "send" /\ ws # "OPEN") =>
          /\ wrote' = <<>>
          /\ Len(out') = 1 /\ out'[1].name = "error" /\ out'[1].arg = ErrNotConnected
          /\ UNCHANGED <<ws, orphans, reconnectCount, reconnectTimeoutId, lostTimers>>]_vars

C7_Witness ==
    lastOp.op = "send" /\ ~lastOp.flag /\ ws = "CONNECTING" /\ Len(out) = 1 /\ wrote = <<>>

\* C8: a frame reaches the transport only in the send() call that passes it
\* and only if the socket is open at that call; no other operation (an open, a
\* reconnect, a later send) writes an envelope whose send() found the socket
\* not open, so the frames written are the envelopes sent while open, in order.
C8_NeverQueued ==
    /\ wrote # <<>> => (lastOp.op = "send" /\ lastOp.flag)
    /\ lastOp.op = "send" =>
          wrote = (IF lastOp.flag
                   THEN <<Stringify(Envelope(JStr(lastOp.arg), SendPayload(lastOp.arg)))>>
                   ELSE <<>>)

C8_Witness == dropped /\ lastOp.op = "open" /\ ws = "OPEN" /\ wrote = <<>>

\* C9: a decoded inbound envelope causes exactly one emission, under the typed
\* event with the payload for the four known types and under 'message' with
\* the whole envelope otherwise.
C9_ExactlyOneEmission ==
    (lastOp.op = "message" /\ lastOp.arg \in InboundTypes) =>
        LET e == InboundEnvelope(lastOp.arg)
            payload == e.m[2].val
        IN /\ Len(out) = 1
           /\ CASE lastOp.arg = "pr_update" ->
                     out[1].name = "prUpdate" /\ out[1].arg = payload
                [] lastOp.arg = "new_suggestion" ->
                     out[1].name = "newSuggestion" /\ out[1].arg = payload
                [] lastOp.arg = "new_comment" ->
                     out[1].name = "newComment" /\ out[1].arg = payload
                [] lastOp.arg = "suggestion_status_change" ->
                     out[1].name = "suggestionStatusChange" /\ out[1].arg = payload
                [] OTHER -> out[1].name = "message" /\ out[1].arg = e

\* C10: a frame that is not valid JSON text emits exactly one 'error' event and
\* no dispatch event, and leaves the channel as it was.
C10_MalformedFrame ==
    [][(lastOp'.op = "message" /\ lastOp'.arg \in {"notValid", "truncated"}) =>
          /\ Len(out') = 1 /\ out'[1].name = "error" /\ out'[1].arg = ErrParse
          /\ wrote' = <<>>
          /\ UNCHANGED <<ws, orphans, reconnectCount, reconnectTimeoutId, lostTimers,
                         listeners>>]_vars

C10_Witness ==
    lastOp.op = "message" /\ lastOp.arg = "notValid" /\ ws = "OPEN" /\ Len(out) = 1

\* C11: a frame that parses as JSON but has no type field is treated as a
\* decode error: it emits an 'error' event and no dispatch event, in particular
\* no 'message' event.
C11_MissingTypeIsDecodeError ==
    (lastOp.op = "message" /\ lastOp.arg = "noType") =>
        /\ \E i \in 1..Len(out) : out[i].name = "error"
        /\ \A i \in 1..Len(out) : out[i].name = "error"

(***************************************************************************)
(* Properties of error handling.                                           *)
(***************************************************************************)
\* C12: no transport callback (open, close, error, message) and no send() call
\* lets an exception escape, whatever handlers are registered, also when no
\* handler is registered for 'error'.
C12_NoExceptionEscapes ==
    lastOp.op \in {"open", "close", "error", "message", "send"} => ~threw

C14_InOrderNoBatching ==
    LET d == SelectSeq(seen, LAMBDA e : e.name # "error") IN
    /\ Len(d) = arrived - Len(inbox)
    /\ \A i \in 1..Len(d) : d[i].seq = i

C14_Witness ==
    /\ arrived = 3 /\ inbox = <<>> /\ Len(seen) >= 3
    /\ seen[1].name = "newComment" /\ seen[2].name = "message"
    /\ lastOp.op = "message" /\ out[1].calls # <<>>

\* C15: once disconnect() has been issued while the socket was connecting, and
\* until the next explicit connect(), the channel owns no socket and no
\* 'connected' event is emitted.
C15_StaleHandshakeNeverActive ==
    staleHandshake =>
        /\ ws = "null"
        /\ lastOp.op = "open" => \A i \in 1..Len(out) : out[i].name # "connected"

(***************************************************************************)
(* Properties of the configuration.                                        *)
(***************************************************************************)
\* C16: the channel is a singleton configured once: at most one instance is
\* ever constructed, and once it exists no getInstance() call changes its
\* address, attempt budget or retry interval, whatever options it passes.
C16_SingletonConfiguredOnce ==
    [][/\ instance' <= 1
       /\ instance = 1 =>
             UNCHANGED <<instance, url, reconnectAttempts, reconnectInterval>>]_vars

C16_Witness ==
    /\ lastOp.op = "getInstance" /\ ~lastOp.flag /\ instance = 1
    /\ lastOp.arg.url # url
    /\ lastOp.arg.reconnectAttempts = [has |-> TRUE, v |-> 2] /\ reconnectAttempts = 1
    /\ lastOp.arg.reconnectInterval = [has |-> TRUE, v |-> 100]
    /\ reconnectInterval = DefaultReconnectInterval

\* C17: after the first getInstance(options) the budget and the interval are
\* the supplied values for every supplied non-negative integer, and the
\* defaults only if the option is omitted.
C17_ConfiguredValuesTakeEffect ==
    (lastOp.op = "getInstance" /\ lastOp.flag) =>
        /\ reconnectAttempts =
              (IF lastOp.arg.reconnectAttempts.has THEN lastOp.arg.reconnectAttempts.v
               ELSE DefaultReconnectAttempts)
        /\ reconnectInterval =
              (IF lastOp.arg.reconnectInterval.has THEN lastOp.arg.reconnectInterval.v
               ELSE DefaultReconnectInterval)

(***************************************************************************)
(* Properties of the typed senders and of the encoding.                    *)
(***************************************************************************)
\* C18: each typed sender does what one send() call with its fixed type and a
\* payload made of its arguments does: subscribeToPR -> subscribe_pr {prId},
\* unsubscribeFromPR -> unsubscribe_pr {prId}, sendComment -> new_comment
\* {prId, comment, lineNumber}, markSuggestionStatus -> suggestion_status
\* {suggestionId, status}, requestAnalysis -> request_analysis {prId}; when the
\* socket is not open it writes nothing and emits one 'error' event.
C18_TypedSendersWrapSend ==
    [][lastOp'.op = "sender" =>
          LET call == lastOp'.arg
              a == call.a
              type == CASE call.fn = "subscribeToPR" -> "subscribe_pr"
                        [] call.fn = "unsubscribeFromPR" -> "unsubscribe_pr"
                        [] call.fn = "sendComment" -> "new_comment"
                        [] call.fn = "markSuggestionStatus" -> "suggestion_status"
                        [] call.fn = "requestAnalysis" -> "request_analysis"
              payload == CASE call.fn = "sendComment" ->
                                JObj(<<Prop("prId", a[1]), Prop("comment", a[2]),
                                       Prop("lineNumber", a[3])>>)
                           [] call.fn = "markSuggestionStatus" ->
                                JObj(<<Prop("suggestionId", a[1]), Prop("status", a[2])>>)
                           [] OTHER -> JObj(<<Prop("prId", a[1])>>)
              sent == SendBody(Cur, JStr(type), payload)
          IN /\ <<ws', orphans', reconnectCount', reconnectTimeoutId', lostTimers',
                  listeners', out', threw', wrote'>>
                = <<sent.ws, sent.orphans, sent.reconnectCount, sent.reconnectTimeoutId,
                    sent.lostTimers, sent.listeners, sent.out, sent.threw, sent.wrote>>
             /\ IF ws = "OPEN"
                THEN Len(wrote') = 1 /\ out' = <<>>
                ELSE /\ wrote' = <<>>
                     /\ Len(out') = 1 /\ out'[1].name = "error"
                     /\ out'[1].arg = ErrNotConnected]_vars

C18_Witness ==
    /\ lastOp.op = "sender" /\ lastOp.flag /\ lastOp.arg.fn = "markSuggestionStatus"
    /\ Len(wrote) = 1
    /\ Get(JSONParse(wrote[1]).val, "type") = JStr("suggestion_status")

\* a JavaScript value as a reader of its properties sees it: a property whose
\* value is undefined reads like a property that is not there
RECURSIVE Norm(_), NormMembers(_, _)
NormMembers(m, i) ==
    IF i > Len(m) THEN <<>>
    ELSE IF m[i].val.k = "undefined" THEN NormMembers(m, i + 1)
    ELSE <<Prop(m[i].key, Norm(m[i].val))>> \o NormMembers(m, i + 1)

Norm(v) == IF v.k = "obj" THEN JObj(NormMembers(v.m, 1)) ELSE v

C20_CountedAtScheduleTime ==
    (lastOp.op = "close" /\ run.live /\ run.fails \in {1, 2}
       /\ run.fails <= reconnectAttempts) =>
        /\ NumTimers(Cur) = 1
        /\ run.armed = run.fails
        /\ reconnectCount = run.fails

\* C21: a successful open callback of the channel's socket leaves the retry
\* state at (0, none): the attempt counter is 0 and no retry timer is pending.
C21_OpenResetsRetryState ==
    (lastOp.op = "open" /\ lastOp.flag /\ ~threw) =>
        (reconnectCount = 0 /\ NumTimers(Cur) = 0)

\* C22: when the WebSocket constructor throws inside connect(), connect() does
\* not throw: it emits one 'error' event carrying the failure and then does
\* what an unplanned close does, arming one retry timer if the budget is not
\* spent and emitting the exhaustion error otherwise.
C22_SyncOpenFailure ==
    [][(lastOp'.op = "connect" /\ lastOp'.flag /\ ~ConnectIsNoop(Cur)) =>
          /\ ~threw'
          /\ out' # <<>> /\ out'[1].name = "error" /\ out'[1].arg = ErrOpen
          /\ IF reconnectCount < reconnectAttempts
             THEN Len(out') = 1 /\ NumTimers(Cur)' = NumTimers(Cur) + 1
             ELSE /\ Len(out') = 2 /\ out'[2].name = "error" /\ out'[2].arg = ErrMax
                  /\ NumTimers(Cur)' = NumTimers(Cur)]_vars

\* C23: the transport's error callback only emits an 'error' event: it arms no
\* retry timer, leaves the attempt counter alone and neither releases nor
\* replaces the socket; the close callback that follows drives the
\* reconnection.
C23_ErrorCallbackOnlyEmits ==
    [][lastOp'.op = "error" =>
          /\ Len(out') = 1 /\ out'[1].name = "error" /\ out'[1].arg = ErrTransport
          /\ UNCHANGED <<reconnectCount, reconnectTimeoutId, lostTimers, listeners>>
          /\ (ws' = "null") = (ws = "null")
          /\ NumLive(Cur)' = NumLive(Cur)
          /\ wrote' = <<>>]_vars

C23_Witness ==
    /\ lastOp.op = "error" /\ lastOp.flag /\ ws = "ERRORED"
    /\ Len(out) = 1 /\ reconnectTimeoutId = "undefined" /\ reconnectCount = 0

\* C24: the attempt counter never leaves the range 0 .. reconnectAttempts, so
\* the number of automatic retries in a row is bounded by the configured
\* budget.
C24_CounterWithinBudget ==
    reconnectCount >= 0 /\ reconnectCount <= reconnectAttempts

\* C25: once connect() has installed a new socket, the callbacks of a socket
\* it replaced have no further effect on the channel: the replaced socket's
\* open callback emits nothing and changes no channel field.
C25_ReplacedSocketIsSilent ==
    [][(lastOp'.op = "open" /\ ~lastOp'.flag) =>
          /\ out' = <<>>
          /\ UNCHANGED <<reconnectCount, reconnectTimeoutId, lostTimers>>]_vars

\* the number of emissions of an event in the output of a step
Emitted(o, name) == Len(SelectSeq(o, LAMBDA e : e.name = name))

\* C26: the connectivity events alternate, starting with 'connected':
\* 'disconnected' is emitted only for a socket that had opened, and never
\* again before the next 'connected' (not once per failed retry attempt).
\* Stated for the cases the state decides: the close of the channel's only
\* socket while it is still connecting, and a second close of a streak in
\* which no socket has opened.
C26_ConnectivityAlternates ==
    [][(lastOp'.op = "close" /\ Emitted(out', "disconnected") > 0) =>
          /\ ~(ws = "CONNECTING" /\ NumOrphans(Cur) = 0)
          /\ ~(run.live /\ run.fails >= 1)]_vars

\* C26 as the code has it: every open callback emits 'connected' once and
\* every close callback emits 'disconnected' once and first, whether or not
\* the socket had opened (so once per failed retry attempt); no other step
\* emits either event.
C26_OneEventPerCallback ==
    [][/\ lastOp'.op = "open" =>
             (Len(out') = 1 /\ out'[1].name = "connected")
       /\ lastOp'.op = "close" =>
             /\ out' # <<>> /\ out'[1].name = "disconnected"
             /\ Emitted(out', "disconnected") = 1
             /\ Emitted(out', "connected") = 0
       /\ lastOp'.op \notin {"open", "close"} =>
             (Emitted(out', "connected") = 0 /\ Emitted(out', "disconnected") = 0)]_vars

C26_Witness ==
    /\ lastOp.op = "close" /\ run.live /\ run.fails = 2
    /\ out # <<>> /\ out[1].name = "disconnected"
    /\ reconnectCount = 1 /\ NumLive(Cur) = 0

\* the channel at rest after a spent budget: no pending timer, no live socket,
\* reconnectAttempts retries made and the exhaustion error emitted once
Quiescent ==
    /\ NumTimers(Cur) = 0 /\ NumLive(Cur) = 0
    /\ run.live /\ run.armed = reconnectAttempts /\ run.exhausted = 1
    /\ reconnectCount = reconnectAttempts

C29_ParseErrorOnlyForBadFrames ==
    (lastOp.op = "message" /\ lastOp.arg \in InboundTypes) =>
        \A i \in 1..Len(out) : ~(out[i].name = "error" /\ out[i].arg = ErrParse)

\* C30: in the useWebSocket hook, once disconnect() has run (in particular as
\* the unmount cleanup) no new WebSocket is created for that hook instance
\* until the component itself calls connect() again: the close callback of
\* the closed socket arms no timer and no earlier timer fires connect().
C30_NoSocketAfterHookDisconnect ==
    [][(hook.lastCall = "disconnect" /\ hook'.lastCall = "disconnect") =>
          /\ hook'.created = hook.created
          /\ hook'.reconnectTimeoutId = "pending" => hook.reconnectTimeoutId = "pending"
          /\ hook'.lostTimers <= hook.lostTimers]_vars

====
